---- MODULE Spec2Model ----
(***************************************************************************)
(* xc220b3: a Session owns an ephemeral ECDH key pair, derives a 32-byte   *)
(* symmetric key from the peer's public key (BLAKE3 of the shared secret)  *)
(* and encrypts with XChaCha20 whose 24-byte nonce is the BLAKE3 XOF MAC   *)
(* of plaintext || key.  Source: src/src/main.rs.                          *)
(*                                                                         *)
(* The three primitives (secp256k1 ECDH, BLAKE3, XChaCha20) are external   *)
(* crates.  They are modelled by small deterministic functions that keep   *)
(* the algebra the program relies on: ECDH is exponentiation in a prime-   *)
(* order group, the hasher is a fold over the absorbed bytes, the cipher   *)
(* XORs a keystream that depends on (key, nonce, position).                *)
(***************************************************************************)
EXTENDS Integers, Sequences, FiniteSets, TLC

(* ------------------------------ bounds --------------------------------- *)
\* the plaintexts explored are the first MaxPlain + 1 strings over the bytes
\* 0 and 1, by length and then by value: << >>, <<0>>, <<1>>, <<0, 0>>, ...
MaxPlain == 2
\* the bits of a byte an adversary may flip in flight: the FlipBits lowest
FlipBits == 1

(* --------------------------- program constants ------------------------- *)
TagLen == 24
KeyLen == 32
\* bits of a u8
ByteBits == 8

(* ------------------------------ ECDH ----------------------------------- *)
\* A group of prime order GroupQ inside the integers modulo FieldP.
FieldP == 7
GroupQ == 3
Generator == 2

RECURSIVE Pow(_, _)
Pow(b, e) == IF e = 0 THEN 1 ELSE (b * Pow(b, e - 1)) % FieldP

\* EphemeralSecret::random: a non-zero scalar
Scalars == 1 .. (GroupQ - 1)
\* every byte string a caller can hand over as an EncodedPoint
Encodings == 0 .. (FieldP - 1)
\* secret.public_key() and EncodedPoint::from
public_key(secret) == Pow(Generator, secret)
\* PublicKey::from_sec1_bytes succeeds: a point of the group, not the identity
from_sec1_bytes_ok(enc) == enc # 0 /\ enc # 1 /\ Pow(enc, GroupQ) = 1
\* secret.diffie_hellman(&pk)
\* faulty variant: the shared point is computed from the own key pair alone
diffie_hellman_own_key(secret, pk) == Pow(Generator, secret)

diffie_hellman(secret, pk) == Pow(pk, secret)
\* shared.raw_secret_bytes(): the coordinate, big-endian on KeyLen bytes
raw_secret_bytes(shared) == [i \in 1 .. KeyLen |-> IF i = KeyLen THEN shared ELSE 0]

(* ------------------------------ BLAKE3 --------------------------------- *)
\* The hasher state is the sequence of bytes absorbed since the last reset.
HashModulus == 65521
HashSeed == 7
HashMul == 31

BlockLen == 8

\* BLAKE3 compresses its input block by block and joins the blocks' chaining
\* values in a binary tree.  At pads the last block; Block is the chaining
\* value of the block starting at index lo; Tree joins blocks lo..hi;
\* Compress is the root for a given domain seed.
At(data, i) == IF i <= Len(data) THEN data[i] + 1 ELSE 0
Block(data, lo) ==
    ( At(data, lo) * 3 + At(data, lo + 1) * 5 + At(data, lo + 2) * 7
    + At(data, lo + 3) * 11 + At(data, lo + 4) * 13 + At(data, lo + 5) * 17
    + At(data, lo + 6) * 19 + At(data, lo + 7) * 23 ) % HashModulus

RECURSIVE Tree(_, _, _)
Tree(data, lo, hi) ==
    IF lo > hi THEN 0
    ELSE IF lo = hi THEN Block(data, (lo - 1) * BlockLen + 1)
    ELSE LET mid == (lo + hi) \div 2
         IN (Tree(data, lo, mid) * HashMul + Tree(data, mid + 1, hi) + 1) % HashModulus

Compress(seed, data) ==
    LET blocks == (Len(data) + BlockLen - 1) \div BlockLen
    IN (Tree(data, 1, blocks) * HashMul + seed + Len(data)) % HashModulus

\* byte i (from 1) of the output stream of a digest
OutByte(d, i) == ((d % 256) * (2 * i + 1) + (d \div 256) * (i * i + 1) + i) % 256

b3_new == << >>
b3_update(st, data) == st \o data
b3_reset(st) == << >>
\* finalize(): KeyLen bytes; finalize_xof().fill(&mut [0; n]): the first n
\* bytes of the same stream
b3_finalize_xof(st, n) ==
    LET d == Compress(HashSeed, st) IN [i \in 1 .. n |-> OutByte(d, i)]
b3_finalize(st) == b3_finalize_xof(st, KeyLen)

(* ----------------------------- XChaCha20 ------------------------------- *)
RECURSIVE XorBits(_, _, _)
XorBits(a, b, n) ==
    IF n = 0 THEN 0
    ELSE ((a + b) % 2) + 2 * XorBits(a \div 2, b \div 2, n - 1)
Xor(a, b) == XorBits(a, b, ByteBits)

StreamSeed == 11
\* keystream byte at position pos (from 0) for a (key, nonce) pair
KeystreamByte(d, pos) ==
    ((d % 256) * (2 * pos + 3) + (d \div 256) * (pos + 5) + 7 * pos) % 256

ZeroKey == [i \in 1 .. KeyLen |-> 0]
ZeroNonce == [i \in 1 .. TagLen |-> 0]

new_xchacha20(key, nonce) == [key |-> key, nonce |-> nonce, pos |-> 0]
\* cc20.process(input, output): returns the output and the advanced cipher
process(cipher, input) ==
    LET d == Compress(StreamSeed, cipher.key \o cipher.nonce) IN
    [out  |-> [i \in 1 .. Len(input) |-> Xor(input[i], KeystreamByte(d, cipher.pos + i - 1))],
     cc20 |-> [cipher EXCEPT !.pos = cipher.pos + Len(input)]]

(* ------------------------------ Session -------------------------------- *)
Sessions == {"sesh1", "sesh2"}

\* a method's effect: the session afterwards, how the call ended and what it
\* returned.  outcome "panic" is a Rust panic: the process terminates.
Result(self, outcome, value) == [self |-> self, outcome |-> outcome, value |-> value]

Session_new(secret) ==
    [ready  |-> FALSE,
     secret |-> secret,
     pk     |-> public_key(secret),
     key    |-> ZeroKey,
     cc20   |-> new_xchacha20(ZeroKey, ZeroNonce),
     b3     |-> b3_new]

\* faulty variant: the key is the hash of the peer's public key, not of the
\* Diffie-Hellman output
set_sym_key_hashes_pk(self, pk) ==
    IF self.ready THEN Result(self, "panic", << >>)
    ELSE IF ~from_sec1_bytes_ok(pk) THEN Result(self, "panic", << >>)
    ELSE LET st  == b3_update(self.b3, raw_secret_bytes(pk))
             key == b3_finalize(st)
         IN Result([self EXCEPT !.key = key,
                                !.b3 = b3_reset(st),
                                !.cc20 = new_xchacha20(key, ZeroNonce),
                                !.ready = TRUE],
                   "ok", << >>)

\* faulty variant: no check of self.ready, a second call overwrites the key
set_sym_key_overwrites(self, pk) ==
    IF ~from_sec1_bytes_ok(pk) THEN Result(self, "panic", << >>)
    ELSE LET shared_bytes == raw_secret_bytes(diffie_hellman(self.secret, pk))
             st  == b3_update(self.b3, shared_bytes)
             key == b3_finalize(st)
         IN Result([self EXCEPT !.key = key,
                                !.b3 = b3_reset(st),
                                !.cc20 = new_xchacha20(key, ZeroNonce),
                                !.ready = TRUE],
                   "ok", << >>)

\* faulty variant: the hasher is not reset after the key is read
set_sym_key_keeps_residue(self, pk) ==
    IF self.ready THEN Result(self, "panic", << >>)
    ELSE IF ~from_sec1_bytes_ok(pk) THEN Result(self, "panic", << >>)
    ELSE LET shared_bytes == raw_secret_bytes(diffie_hellman(self.secret, pk))
             st  == b3_update(self.b3, shared_bytes)
             key == b3_finalize(st)
         IN Result([self EXCEPT !.key = key,
                                !.b3 = st,
                                !.cc20 = new_xchacha20(key, ZeroNonce),
                                !.ready = TRUE],
                   "ok", << >>)

\* faulty variant: the session becomes ready without the key being stored
set_sym_key_forgets_key(self, pk) ==
    IF self.ready THEN Result(self, "panic", << >>)
    ELSE IF ~from_sec1_bytes_ok(pk) THEN Result(self, "panic", << >>)
    ELSE LET shared_bytes == raw_secret_bytes(diffie_hellman(self.secret, pk))
             st  == b3_update(self.b3, shared_bytes)
             key == b3_finalize(st)
         IN Result([self EXCEPT !.b3 = b3_reset(st),
                                !.cc20 = new_xchacha20(key, ZeroNonce),
                                !.ready = TRUE],
                   "ok", << >>)

set_sym_key(self, pk) ==
    IF self.ready THEN Result(self, "panic", << >>)
    ELSE IF ~from_sec1_bytes_ok(pk) THEN Result(self, "panic", << >>)
    ELSE LET shared_bytes == raw_secret_bytes(diffie_hellman(self.secret, pk))
             st  == b3_update(self.b3, shared_bytes)
             key == b3_finalize(st)
         IN Result([self EXCEPT !.key = key,
                                !.b3 = b3_reset(st),
                                !.cc20 = new_xchacha20(key, ZeroNonce),
                                !.ready = TRUE],
                   "ok", << >>)

\* faulty variant: the hasher is not reset after the tag is read
mac_keeps_residue(self, plain) ==
    IF ~self.ready THEN Result(self, "panic", << >>)
    ELSE LET st == b3_update(b3_update(self.b3, plain), self.key)
         IN Result([self EXCEPT !.b3 = st], "ok", b3_finalize_xof(st, TagLen))

\* faulty variant: no check of self.ready
mac_unguarded(self, plain) ==
    LET st == b3_update(b3_update(self.b3, plain), self.key)
    IN Result([self EXCEPT !.b3 = b3_reset(st)], "ok", b3_finalize_xof(st, TagLen))

\* faulty variant: the key is not absorbed into the tag
mac_ignores_key(self, plain) ==
    IF ~self.ready THEN Result(self, "panic", << >>)
    ELSE LET st == b3_update(self.b3, plain)
         IN Result([self EXCEPT !.b3 = b3_reset(st)], "ok", b3_finalize_xof(st, TagLen))

mac(self, plain) ==
    IF ~self.ready THEN Result(self, "panic", << >>)
    ELSE LET st == b3_update(b3_update(self.b3, plain), self.key)
         IN Result([self EXCEPT !.b3 = b3_reset(st)], "ok", b3_finalize_xof(st, TagLen))

\* faulty variant: the tag is put before the ciphertext
encrypt_tag_first(self, plain) ==
    IF ~self.ready THEN Result(self, "panic", << >>)
    ELSE LET m == mac(self, plain)
             p == process(new_xchacha20(self.key, m.value), plain)
         IN Result([m.self EXCEPT !.cc20 = p.cc20], "ok", m.value \o p.out)

\* faulty variant: the cipher is not re-initialised with the tag as nonce
encrypt_reuses_cipher(self, plain) ==
    IF ~self.ready THEN Result(self, "panic", << >>)
    ELSE LET m == mac(self, plain)
             p == process(self.cc20, plain)
         IN Result([m.self EXCEPT !.cc20 = p.cc20], "ok", p.out \o m.value)

encrypt(self, plain) ==
    IF ~self.ready THEN Result(self, "panic", << >>)
    ELSE LET m == mac(self, plain)
             p == process(new_xchacha20(self.key, m.value), plain)
         IN Result([m.self EXCEPT !.cc20 = p.cc20], "ok", p.out \o m.value)

\* faulty variant: the recomputed tag is not compared with the claimed one
decrypt_unchecked(self, ciphertext) ==
    IF ~self.ready THEN Result(self, "panic", << >>)
    ELSE IF Len(ciphertext) < TagLen THEN Result(self, "panic", << >>)
    ELSE LET n == Len(ciphertext)
             claimed_mac == SubSeq(ciphertext, n - TagLen + 1, n)
             body == SubSeq(ciphertext, 1, n - TagLen)
             p == process(new_xchacha20(self.key, claimed_mac), body)
             m == mac([self EXCEPT !.cc20 = p.cc20], p.out)
         IN Result(m.self, "ok", p.out)

\* faulty variant: a MAC mismatch marks the session as not ready
decrypt_unreadies(self, ciphertext) ==
    IF ~self.ready THEN Result(self, "panic", << >>)
    ELSE IF Len(ciphertext) < TagLen THEN Result(self, "panic", << >>)
    ELSE LET n == Len(ciphertext)
             claimed_mac == SubSeq(ciphertext, n - TagLen + 1, n)
             body == SubSeq(ciphertext, 1, n - TagLen)
             p == process(new_xchacha20(self.key, claimed_mac), body)
             m == mac([self EXCEPT !.cc20 = p.cc20], p.out)
         IN IF claimed_mac # m.value
            THEN Result([m.self EXCEPT !.ready = FALSE], "MacMismatch", << >>)
            ELSE Result(m.self, "ok", p.out)

\* faulty variant: a MAC mismatch erases the symmetric key
decrypt_wipes_key(self, ciphertext) ==
    IF ~self.ready THEN Result(self, "panic", << >>)
    ELSE IF Len(ciphertext) < TagLen THEN Result(self, "panic", << >>)
    ELSE LET n == Len(ciphertext)
             claimed_mac == SubSeq(ciphertext, n - TagLen + 1, n)
             body == SubSeq(ciphertext, 1, n - TagLen)
             p == process(new_xchacha20(self.key, claimed_mac), body)
             m == mac([self EXCEPT !.cc20 = p.cc20], p.out)
         IN IF claimed_mac # m.value
            THEN Result([m.self EXCEPT !.key = ZeroKey], "MacMismatch", << >>)
            ELSE Result(m.self, "ok", p.out)

\* faulty variant: an input of the tag alone is refused as too short
decrypt_needs_body(self, ciphertext) ==
    IF ~self.ready THEN Result(self, "panic", << >>)
    ELSE IF Len(ciphertext) <= TagLen THEN Result(self, "panic", << >>)
    ELSE LET n == Len(ciphertext)
             claimed_mac == SubSeq(ciphertext, n - TagLen + 1, n)
             body == SubSeq(ciphertext, 1, n - TagLen)
             p == process(new_xchacha20(self.key, claimed_mac), body)
             m == mac([self EXCEPT !.cc20 = p.cc20], p.out)
         IN IF claimed_mac # m.value
            THEN Result(m.self, "MacMismatch", << >>)
            ELSE Result(m.self, "ok", p.out)

decrypt(self, ciphertext) ==
    IF ~self.ready THEN Result(self, "panic", << >>)
    ELSE IF Len(ciphertext) < TagLen THEN Result(self, "panic", << >>)
    ELSE LET n == Len(ciphertext)
             claimed_mac == SubSeq(ciphertext, n - TagLen + 1, n)
             body == SubSeq(ciphertext, 1, n - TagLen)
             p == process(new_xchacha20(self.key, claimed_mac), body)
             m == mac([self EXCEPT !.cc20 = p.cc20], p.out)
         IN IF claimed_mac # m.value
            THEN Result(m.self, "MacMismatch", << >>)
            ELSE Result(m.self, "ok", p.out)

(* ---------------------------- state machine ---------------------------- *)
VARIABLES
    sess,     \* the two Session values
    given,    \* the encoding each session was handed by set_sym_key, << >> before
    wire,     \* the latest encrypt output, in flight, with its sender and plaintext
    last,     \* the last call: method, session, argument, outcome, return value
    crashed,  \* a panic has terminated the process
    pc        \* the statement of main that runs next

vars == <<sess, given, wire, last, crashed, pc>>

\* the plain: Vec<u8> arguments explored
RECURSIVE Plain(_)
Plain(n) == IF n = 0 THEN << >> ELSE Append(Plain((n - 1) \div 2), (n - 1) % 2)

Plaintexts == {Plain(n) : n \in 0 .. MaxPlain}

Call(op, who, arg, r) ==
    [op |-> op, who |-> who, arg |-> arg, outcome |-> r.outcome, value |-> r.value]

Init ==
    /\ sess \in [Sessions -> {Session_new(k) : k \in Scalars}]
    /\ given = [s \in Sessions |-> << >>]
    /\ wire = {}
    /\ last = [op |-> "new", who |-> "none", arg |-> << >>, outcome |-> "ok", value |-> << >>]
    /\ crashed = FALSE
    /\ pc = "agree_sesh1"

\* the effect of any call on the process: the session is replaced and a panic
\* ends the run
Effect(op, s, arg, r) ==
    /\ sess' = [sess EXCEPT ![s] = r.self]
    /\ last' = Call(op, s, arg, r)
    /\ crashed' = (r.outcome = "panic")

DoSetSymKey(s, pk) ==
    /\ ~crashed
    /\ LET r == set_sym_key(sess[s], pk) IN
        /\ Effect("set_sym_key", s, <<pk>>, r)
        /\ given' = IF r.outcome = "ok" THEN [given EXCEPT ![s] = <<pk>>] ELSE given
    /\ UNCHANGED wire

SetSymKey(s, pk) == DoSetSymKey(s, pk) /\ UNCHANGED pc

Mac(s, plain) ==
    /\ ~crashed
    /\ Effect("mac", s, plain, mac(sess[s], plain))
    /\ UNCHANGED <<given, wire, pc>>

DoEncrypt(s, plain) ==
    /\ ~crashed
    /\ LET r == encrypt(sess[s], plain) IN
        /\ Effect("encrypt", s, plain, r)
        /\ wire' = IF r.outcome = "ok"
                   THEN {[from |-> s, plain |-> plain, bytes |-> r.value]}
                   ELSE wire
    /\ UNCHANGED given

Encrypt(s, plain) == DoEncrypt(s, plain) /\ UNCHANGED pc

\* what can be handed to decrypt: a ciphertext in flight, one cut down to
\* TagLen - 1 bytes, nothing at all, or TagLen zero bytes made up without any key
InFlight == {w.bytes : w \in wire}
Truncated == {SubSeq(b, 1, TagLen - 1) : b \in InFlight}
Arriving == InFlight \cup Truncated \cup {<< >>, ZeroNonce}

\* a ciphertext in flight with one of the FlipBits low bits of one byte flipped
Pow2(k) == 2 ^ k
Flipped ==
    UNION {{[b EXCEPT ![i] = Xor(b[i], Pow2(k))] : i \in 1 .. Len(b), k \in 0 .. (FlipBits - 1)} :
            b \in InFlight}

DoDecrypt(s, ciphertext) ==
    /\ ~crashed
    /\ Effect("decrypt", s, ciphertext, decrypt(sess[s], ciphertext))
    /\ UNCHANGED <<given, wire>>

Decrypt(s, ciphertext) == DoDecrypt(s, ciphertext) /\ UNCHANGED pc

Next ==
    \/ \E s \in Sessions, pk \in Encodings : SetSymKey(s, pk)
    \/ \E s \in Sessions, plain \in Plaintexts : Mac(s, plain)
    \/ \E s \in Sessions, plain \in Plaintexts : Encrypt(s, plain)
    \/ \E s \in Sessions, ciphertext \in Arriving : Decrypt(s, ciphertext)

Spec == Init /\ [][Next]_vars

(* The channel of main: the sessions are handed each other's public key,    *)
(* sesh1 encrypts, the bytes may have a bit flipped in flight, sesh2        *)
(* decrypts.                                                                *)
Peer(s) == IF s = "sesh1" THEN "sesh2" ELSE "sesh1"

Agree(s) == SetSymKey(s, sess[Peer(s)].pk)
Send(plain) == Encrypt("sesh1", plain)
Deliver(ciphertext) == Decrypt("sesh2", ciphertext)

\* main's msg, "Hello"
Hello == <<72, 101, 108, 108, 111>>
Messages == Plaintexts \cup {Hello}

NextChannel ==
    \/ \E s \in Sessions : Agree(s)
    \/ \E plain \in Messages : Send(plain)
    \/ \E ciphertext \in InFlight : Deliver(ciphertext)
    \/ \E ciphertext \in Flipped : Deliver(ciphertext)

SpecChannel == Init /\ [][NextChannel]_vars

---------------------------------------------------------------------------
\* main: the statements of the demo, one after the other

\* every value of a u8
Bytes == 0 .. (Pow2(ByteBits) - 1)

\* tamper_with(bytes, 1): one index and one byte are drawn, the byte is stored
tamper_with(bytes, index, value) == [bytes EXCEPT ![index + 1] = value]

Statement(at, A, to) == pc = at /\ A /\ pc' = to

MainAgree1 ==
    Statement("agree_sesh1", DoSetSymKey("sesh1", sess["sesh2"].pk), "agree_sesh2")

MainAgree2 ==
    Statement("agree_sesh2", DoSetSymKey("sesh2", sess["sesh1"].pk), "encrypt")

MainEncrypt ==
    Statement("encrypt", DoEncrypt("sesh1", Hello), "decrypt")

MainDecrypt ==
    Statement("decrypt", \E w \in wire : DoDecrypt("sesh2", w.bytes), "encrypt_again")

MainEncryptAgain ==
    Statement("encrypt_again", DoEncrypt("sesh1", Hello), "tamper")

MainTamper ==
    /\ pc = "tamper"
    /\ ~crashed
    /\ \E w \in wire :
          \E index \in 0 .. (Len(w.bytes) - 1), value \in Bytes :
              wire' = {[w EXCEPT !.bytes = tamper_with(w.bytes, index, value)]}
    /\ pc' = "decrypt_tampered"
    /\ UNCHANGED <<sess, given, last, crashed>>

MainDecryptTampered ==
    Statement("decrypt_tampered", \E w \in wire : DoDecrypt("sesh2", w.bytes), "done")

NextMain ==
    \/ MainAgree1
    \/ MainAgree2
    \/ MainEncrypt
    \/ MainDecrypt
    \/ MainEncryptAgain
    \/ MainTamper
    \/ MainDecryptTampered

SpecMain == Init /\ [][NextMain]_vars

(* ------------------------------- claims -------------------------------- *)
CipherOps == {"encrypt", "decrypt", "mac"}

\* a and b have each run set_sym_key on the other's public encoding
MutualAgreement(a, b) ==
    /\ a # b
    /\ given[a] = <<sess[b].pk>>
    /\ given[b] = <<sess[a].pk>>

\* the tag carried by a ciphertext
TagOf(bytes) == SubSeq(bytes, Len(bytes) - TagLen + 1, Len(bytes))

\* C1  Round trip: when a session decrypts a ciphertext that its peer produced
\* by encrypt(m), both having agreed on each other's public key, the call
\* succeeds and returns m, whatever calls either session made before.
C1_RoundTrip ==
    \A w \in wire :
        (/\ last.op = "decrypt"
         /\ last.arg = w.bytes
         /\ MutualAgreement(w.from, last.who))
        => (last.outcome = "ok" /\ last.value = w.plain)

\* sesh1 got back the one-byte plaintext that sesh2 encrypted, after sesh2
\* had agreed on sesh1's key and sesh1 on sesh2's
C1_Witness ==
    \E w \in wire :
        /\ last.op = "decrypt" /\ last.who = "sesh1" /\ last.arg = w.bytes
        /\ w.from = "sesh2"
        /\ MutualAgreement(w.from, last.who)
        /\ last.outcome = "ok" /\ last.value = w.plain /\ Len(w.plain) = 1

\* C2  Agreement symmetry: after each of two sessions ran key agreement on the
\* other's public encoding, their symmetric keys are equal, each being the
\* hash of the Diffie-Hellman output of its own secret and the other's key.
C2_AgreementSymmetry ==
    \A a, b \in Sessions :
        MutualAgreement(a, b) =>
            /\ sess[a].ready /\ sess[b].ready
            /\ sess[a].key = sess[b].key
            /\ sess[a].key =
                 b3_finalize(raw_secret_bytes(diffie_hellman(sess[a].secret, sess[b].pk)))

\* two sessions with different key pairs have agreed with each other
C2_Witness ==
    /\ MutualAgreement("sesh1", "sesh2")
    /\ sess["sesh1"].secret # sess["sesh2"].secret
    /\ sess["sesh1"].pk # sess["sesh2"].pk

\* C4  No encrypt, decrypt or mac call on a session that is not ready returns
\* a result: the call ends in a panic and yields no value.
C4_NoResultBeforeReady ==
    (last.op \in CipherOps /\ ~sess[last.who].ready)
        => (last.outcome = "panic" /\ last.value = << >>)

\* mac was called on a session before its key agreement
C4_Witness ==
    /\ last.op = "mac"
    /\ ~sess[last.who].ready
    /\ given[last.who] = << >>
    /\ last.outcome = "panic"

\* C7  symmetric_key is set at most once: the key of a ready session is the
\* same after every step, and a key changes only in the successful
\* set_sym_key that makes its session ready.
C7_KeySetAtMostOnce ==
    [][\A s \in Sessions :
          /\ sess[s].ready => (sess'[s].key = sess[s].key /\ sess'[s].ready)
          /\ sess'[s].key # sess[s].key =>
                (/\ ~sess[s].ready
                 /\ last'.op = "set_sym_key" /\ last'.who = s /\ last'.outcome = "ok")]_vars

\* key agreement was tried again, with another point, on a session that had
\* its key and had used it
C7_Witness ==
    /\ last.op = "set_sym_key"
    /\ sess[last.who].ready
    /\ last.arg # given[last.who]
    /\ from_sec1_bytes_ok(last.arg[1])
    /\ sess[last.who].cc20.nonce # ZeroNonce
    /\ sess[last.who].key # ZeroKey

\* C3 as stated  Tamper detection: for ready peer sessions and any plaintext
\* m, a decrypt input as long as encrypt(m) that differs from it fails with
\* MacMismatch.
C3_AnyOtherInputRejected ==
    \A m \in Messages :
        (/\ last.op = "decrypt"
         /\ MutualAgreement(Peer(last.who), last.who)
         /\ Len(last.arg) = Len(m) + TagLen
         /\ last.arg # encrypt(sess[Peer(last.who)], m).value)
        => last.outcome = "MacMismatch"

\* C3 as amended  decrypt returns a plaintext p only for the input that is
\* exactly encrypt(p) under the session's key; every other input of at least
\* TagLen bytes, such as encrypt(m) altered in its ciphertext or its tag so
\* that it is the encryption of no message, fails with MacMismatch and
\* returns nothing.
C3_OnlyEncryptionsAccepted ==
    (last.op = "decrypt" /\ last.outcome # "panic") =>
        /\ last.outcome \in {"ok", "MacMismatch"}
        /\ last.outcome = "ok" =>
              last.arg = encrypt(sess[last.who], last.value).value
        /\ last.outcome = "MacMismatch" =>
              /\ last.value = << >>
              /\ \A m \in Messages : last.arg # encrypt(sess[last.who], m).value

\* the positions at which two byte strings of the same length differ
DiffAt(x, y) == {i \in 1 .. Len(x) : x[i] # y[i]}

\* sesh2 was handed a ciphertext of its peer with one bit flipped in the
\* ciphertext region and answered MacMismatch
C3_Witness ==
    \E w \in wire :
        /\ last.op = "decrypt" /\ last.outcome = "MacMismatch"
        /\ MutualAgreement(w.from, last.who)
        /\ Len(last.arg) = Len(w.bytes)
        /\ \E i \in 1 .. Len(w.plain) : DiffAt(last.arg, w.bytes) = {i}

\* C5  encrypt, decrypt or mac on a session before key agreement returns the
\* outcome SessionNotReady to the caller and the process goes on.
C5_NotReadyIsReturned ==
    (last.op \in CipherOps /\ ~sess[last.who].ready)
        => (last.outcome = "SessionNotReady" /\ ~crashed)

\* C6  set_sym_key on a session that is already ready returns the outcome
\* AlreadyInitialized, the process goes on and the session is left as it was.
C6_SecondAgreementIsReturned ==
    [][\A s \in Sessions :
          (sess[s].ready /\ last'.op = "set_sym_key" /\ last'.who = s)
          => (/\ last'.outcome = "AlreadyInitialized"
              /\ ~crashed'
              /\ sess'[s] = sess[s])]_vars

\* C8  decrypt on a ready session of an input shorter than TagLen bytes
\* returns the outcome MalformedCiphertext and the process goes on.
C8_ShortInputIsReturned ==
    (last.op = "decrypt" /\ sess[last.who].ready /\ Len(last.arg) < TagLen)
        => (last.outcome = "MalformedCiphertext" /\ ~crashed)

\* C9  set_sym_key on a session that is not ready, given an encoding that is
\* no valid curve point, returns the outcome InvalidPeerKey, the process goes
\* on and the session is as constructed.
C9_InvalidPeerKeyIsReturned ==
    (/\ last.op = "set_sym_key"
     /\ ~from_sec1_bytes_ok(last.arg[1])
     /\ ~sess[last.who].ready)
    => (/\ last.outcome = "InvalidPeerKey"
        /\ ~crashed
        /\ sess[last.who].key = ZeroKey
        /\ sess[last.who].b3 = b3_new)

\* C10  Wire format: encrypt(p) on a ready session with key k is len(p) +
\* TagLen bytes long, ends with the TagLen bytes of the hash of p followed by
\* k, and starts with p XORed with the keystream of k under that tag as
\* nonce; "Hello" gives 29 bytes.
C10_WireFormat ==
    (last.op = "encrypt" /\ last.outcome = "ok") =>
        LET p   == last.arg
            k   == sess[last.who].key
            tag == b3_finalize_xof(p \o k, TagLen)
            d   == Compress(StreamSeed, k \o tag)
        IN /\ Len(last.value) = Len(p) + TagLen
           /\ SubSeq(last.value, Len(p) + 1, Len(p) + TagLen) = tag
           /\ tag = mac(sess[last.who], p).value
           /\ \A i \in 1 .. Len(p) : last.value[i] = Xor(p[i], KeystreamByte(d, i - 1))
           /\ p = Hello => Len(last.value) = 29

\* sesh1 has encrypted "Hello" into 29 bytes
C10_Witness ==
    /\ last.op = "encrypt" /\ last.outcome = "ok"
    /\ last.arg = Hello
    /\ Len(last.value) = 29

\* C11  readiness is one-way: every session is not ready after construction,
\* and no step takes a ready session back to not ready.
C11_ReadinessOneWay ==
    /\ \A s \in Sessions : ~sess[s].ready
    /\ [][\A s \in Sessions : sess[s].ready => sess'[s].ready]_vars

\* a ready session has answered MacMismatch and is still ready
C11_Witness ==
    /\ last.op = "decrypt"
    /\ last.outcome = "MacMismatch"
    /\ sess[last.who].ready
    /\ ~crashed

\* C12  Between calls the hasher of every session is empty, so the tag a mac
\* call returns is the hash of its plaintext followed by the key and of
\* nothing else.
C12_HasherEmptyBetweenCalls ==
    /\ \A s \in Sessions : sess[s].b3 = b3_new
    /\ (last.op = "mac" /\ last.outcome = "ok") =>
          last.value = b3_finalize_xof(last.arg \o sess[last.who].key, TagLen)

\* mac returned a tag on a session that had run its cipher on a message before
C12_Witness ==
    /\ last.op = "mac" /\ last.outcome = "ok"
    /\ Len(last.arg) > 0
    /\ sess[last.who].cc20.nonce # ZeroNonce
    /\ sess[last.who].b3 = b3_new

\* a session as set_sym_key leaves it: the key in place, no cipher or hasher use yet
JustKeyed(self) ==
    [self EXCEPT !.cc20 = new_xchacha20(self.key, ZeroNonce), !.b3 = b3_new]

\* C13  encrypt is deterministic: its output is the one a session that has
\* just agreed on the same key gives for the same plaintext, and it is equal,
\* byte for byte, to the output in flight of an earlier encrypt of the same
\* plaintext under the same key, whatever was called in between.
C13_DeterministicEncryption ==
    [][(last'.op = "encrypt" /\ last'.outcome = "ok") =>
         /\ last'.value = encrypt(JustKeyed(sess[last'.who]), last'.arg).value
         /\ \A w \in wire :
               (w.plain = last'.arg /\ sess[w.from].key = sess[last'.who].key)
                   => last'.value = w.bytes]_vars

\* a session encrypted a message that its peer, holding the same key, had
\* run its cipher on before under the same tag
C13_Witness ==
    /\ last.op = "encrypt" /\ last.outcome = "ok"
    /\ Len(last.arg) > 0
    /\ \E t \in Sessions \ {last.who} :
          /\ sess[t].key = sess[last.who].key
          /\ sess[t].cc20.nonce = TagOf(last.value)
          /\ sess[t].cc20.pos = Len(last.arg)
    /\ sess[last.who].cc20.nonce = TagOf(last.value)

\* C14  On a ready session an encrypt or decrypt call that returns, with a
\* ciphertext, a plaintext or MacMismatch, changes nothing but the cipher and
\* the hasher of that session; and a decrypt of a genuine ciphertext of the
\* peer that follows a MacMismatch returns the plaintext that was sent.
C14_CipherCallsKeepTheSession ==
    [][(last'.op \in {"encrypt", "decrypt"} /\ sess[last'.who].ready /\ ~crashed') =>
         /\ \A s \in Sessions :
               /\ sess'[s].ready = sess[s].ready
               /\ sess'[s].key = sess[s].key
               /\ sess'[s].secret = sess[s].secret
               /\ sess'[s].pk = sess[s].pk
               /\ s # last'.who => sess'[s] = sess[s]
         /\ given' = given
         /\ (last.op = "decrypt" /\ last.outcome = "MacMismatch"
               /\ last'.op = "decrypt" /\ last'.who = last.who) =>
              \A w \in wire :
                 (last'.arg = w.bytes /\ MutualAgreement(w.from, last.who))
                     => (last'.outcome = "ok" /\ last'.value = w.plain)]_vars

\* a ready session has answered MacMismatch, its key is the one its peer
\* holds, and the genuine ciphertext of a non-empty message is still in flight
C14_Witness ==
    /\ last.op = "decrypt" /\ last.outcome = "MacMismatch"
    /\ sess[last.who].ready
    /\ \E w \in wire :
          /\ MutualAgreement(w.from, last.who)
          /\ sess[w.from].key = sess[last.who].key
          /\ Len(w.plain) > 0
          /\ last.arg # w.bytes /\ Len(last.arg) = Len(w.bytes)

\* C15  A ciphertext made under one key and handed to decrypt on a ready
\* session that holds another key is answered with MacMismatch, and no
\* plaintext is returned.
C15_WrongKeyRejected ==
    (last.op = "decrypt" /\ sess[last.who].ready) =>
        \A w \in wire :
            (last.arg = w.bytes /\ sess[w.from].key # sess[last.who].key)
                => (last.outcome = "MacMismatch" /\ last.value = << >> /\ ~crashed)

\* a session that agreed with another key than its peer's was handed the
\* peer's ciphertext of a one-byte message
C15_Witness ==
    /\ last.op = "decrypt" /\ last.outcome = "MacMismatch"
    /\ \E w \in wire :
          /\ last.arg = w.bytes
          /\ w.from # last.who
          /\ Len(w.plain) = 1
          /\ sess[last.who].ready
          /\ sess[w.from].key # sess[last.who].key
          /\ sess[w.from].key # ZeroKey

\* C16  encrypt of the empty plaintext returns TagLen bytes, the tag alone;
\* a ready session takes an input of exactly TagLen bytes as an empty
\* ciphertext followed by a tag, so the call ends in a plaintext or in
\* MacMismatch and never in a length failure; and the peer's decrypt of the
\* encryption of the empty plaintext returns the empty plaintext.
C16_TagAloneIsAccepted ==
    /\ (last.op = "encrypt" /\ last.outcome = "ok" /\ last.arg = << >>) =>
          (Len(last.value) = TagLen
             /\ last.value = b3_finalize_xof(sess[last.who].key, TagLen))
    /\ (last.op = "decrypt" /\ sess[last.who].ready /\ Len(last.arg) = TagLen) =>
          /\ ~crashed
          /\ last.outcome \in {"ok", "MacMismatch"}
          /\ sess[last.who].cc20 = new_xchacha20(sess[last.who].key, last.arg)
          /\ \A w \in wire :
                (last.arg = w.bytes /\ MutualAgreement(w.from, last.who))
                    => (last.outcome = "ok" /\ last.value = << >>)

\* the peer decrypted the TagLen bytes that encrypt made of the empty plaintext
C16_Witness ==
    /\ last.op = "decrypt" /\ last.outcome = "ok" /\ last.value = << >>
    /\ Len(last.arg) = TagLen
    /\ \E w \in wire :
          /\ w.bytes = last.arg /\ w.plain = << >>
          /\ MutualAgreement(w.from, last.who)

\* C17  The order of the handshake does not matter: a session that is not
\* ready completes its agreement whether or not its peer has agreed, and once
\* sesh2 has agreed, the ciphertext sesh1 produced decrypts on sesh2 to the
\* plaintext sesh1 encrypted, whether sesh2 agreed before or after sesh1
\* encrypted.
C17_HandshakeOrderIndependent ==
    /\ \A s \in Sessions :
          ~sess[s].ready => set_sym_key(sess[s], sess[Peer(s)].pk).outcome = "ok"
    /\ \A w \in wire :
          (w.from = "sesh1" /\ sess["sesh2"].ready) =>
              /\ decrypt(sess["sesh2"], w.bytes).outcome = "ok"
              /\ decrypt(sess["sesh2"], w.bytes).value = w.plain
              /\ (last.op = "decrypt" /\ last.arg = w.bytes) =>
                    (last.outcome = "ok" /\ last.value = w.plain)

\* sesh2 completed its agreement with a message of sesh1 already in flight,
\* and its decrypt returns that message
C17_Witness ==
    /\ last.op = "set_sym_key" /\ last.who = "sesh2" /\ last.outcome = "ok"
    /\ sess["sesh1"].secret # sess["sesh2"].secret
    /\ \E w \in wire :
          /\ w.from = "sesh1" /\ Len(w.plain) > 0
          /\ decrypt(sess["sesh2"], w.bytes).value = w.plain

\* C19  A session that is not ready holds the all-zero key and has been given
\* no peer key; a session that is ready holds the hash of the shared secret of
\* its own private key and the peer key it was given.
C19_KeyReadinessCoupling ==
    \A s \in Sessions :
        /\ ~sess[s].ready => (sess[s].key = ZeroKey /\ given[s] = << >>)
        /\ sess[s].ready =>
              /\ given[s] # << >>
              /\ sess[s].key =
                    b3_finalize(raw_secret_bytes(
                        diffie_hellman(sess[s].secret, given[s][1])))

\* one session encrypted under its agreed key while the other, never keyed,
\* still holds the zero key
C19_Witness ==
    /\ last.op = "encrypt" /\ last.outcome = "ok"
    /\ sess[last.who].ready
    /\ sess[last.who].key # ZeroKey
    /\ \E t \in Sessions : ~sess[t].ready /\ sess[t].key = ZeroKey

\* C18  In main the buffer handed to the second sesh2.decrypt differs from
\* the output of encrypt in exactly one byte, and that decrypt ends in
\* MacMismatch.
C18_TamperAlwaysDetected ==
    /\ pc = "decrypt_tampered" =>
          \A w \in wire : Cardinality(DiffAt(w.bytes, last.value)) = 1
    /\ pc = "done" => last.outcome = "MacMismatch"

====
